---- MODULE Spec2Model ----
(***************************************************************************)
(* State-machine model of the ResumeUploadImproved React component         *)
(* (frontend/ats-resume-app/src/components/ResumeUpload.jsx).              *)
(*                                                                         *)
(* The variables are the component's useState hooks together with the      *)
(* asynchronous operations that are in flight (pending axios promises,     *)
(* pending clipboard writes, pending setTimeout callbacks).  Every handler *)
(* is one action for the synchronous part up to its first await, and one   *)
(* action per way the awaited promise can settle for its continuation.     *)
(*                                                                         *)
(* staleUploads is a history variable: the number of in-flight upload      *)
(* requests, at the front of the queue, that were dispatched before the    *)
(* latest click on Reset.  The component keeps no such record; no guard    *)
(* and no other variable depends on it.                                    *)
(***************************************************************************)
EXTENDS Integers, Sequences, FiniteSets, TLC

VARIABLES resume, jobDescription, loading, result, error, success,
          strengthsFilter, weaknessesFilter,
          uploads, exports, copies, timers, staleUploads

vars == <<resume, jobDescription, loading, result, error, success,
          strengthsFilter, weaknessesFilter,
          uploads, exports, copies, timers, staleUploads>>

----------------------------------------------------------------------------
(* Bounds of the model *)

\* longest job description typed into the text field
MaxLen == 1
\* most export requests in flight at once
MaxExports == 1
\* most clipboard writes plus auto-clear timers pending at once
MaxClipboard == 2
\* cap on the queue of in-flight upload requests
MaxUploads == 2
\* steps per score point: a score is held as a whole number of 1/Scale points
Scale == 2
\* longest strengths or weaknesses list of a response
MaxList == 2

----------------------------------------------------------------------------
(* Values *)

\* useState(null) for the resume: no File object held
NoFile == "null"
\* File objects the user can pick, identified by name
Files == {"cv.pdf", "cv.txt"}

\* useState(null) for the result
NoResult == [null |-> TRUE]
\* JSON values of a metric field: a number (held in 1/Scale points) or a string
Num(points) == [num |-> points * Scale]
Str(text) == [str |-> text]

\* list items and filter queries are sequences of characters
Teamwork == <<"T", "e", "a", "m", "w", "o", "r", "k">>

Team == <<"t", "e", "a", "m">>
Sql == <<"S", "Q", "L">>

\* the items a strengths or weaknesses list is made of
Words == {Teamwork, Team, Sql}

\* the texts typed into a filter field
Queries == {<<>>, Team, <<"W", "O", "R", "K">>, <<"q", "l">>, <<"x">>}

RECURSIVE ListsUpTo(_)
ListsUpTo(n) ==
    IF n = 0 THEN {<<>>}
    ELSE LET shorter == ListsUpTo(n - 1)
         IN  shorter \cup {Append(l, w) : l \in shorter, w \in Words}

\* the strengths lists a response can carry
Lists == ListsUpTo(MaxList)

\* the four metric fields
Metrics == {"ats_score", "keyword_overlap", "semantic_similarity", "match_score"}

\* whole score points around the bucket and range boundaries
ScorePoints == {-1, 0, 39, 40, 59, 60, 79, 80, 100, 101}

\* the values a metric field can arrive with: numbers, whole or fractional,
\* inside and outside 0..100, and a string that is not a number
MetricValues ==
    {[num |-> p * Scale + f] : p \in ScorePoints, f \in 0..(Scale - 1)}
    \cup {Str("n/a")}

\* response bodies of /api/upload (every field optional)
Bodies ==
    { [ats_score |-> Num(85), feedback |-> "Good match", strengths |-> <<Teamwork>>],
      [ats_score |-> Num(120), keyword_overlap |-> Num(40), feedback |-> ""] }

\* characters of a job description; " " is white space
Chars == {" ", "a"}
IsWhiteSpace(c) == c = " "

RECURSIVE StringsUpTo(_)
StringsUpTo(n) ==
    IF n = 0 THEN {<<>>}
    ELSE LET shorter == StringsUpTo(n - 1)
         IN  shorter \cup {Append(s, c) : s \in shorter, c \in Chars}

\* values the job description text field can hold
Descriptions == StringsUpTo(MaxLen)

\* the messages the component displays
MsgNone == ""
MsgMissingResume == "Please upload a resume file."
MsgEvaluated == "Resume evaluated successfully!"
MsgNoResponse == "No response from the server. Please ensure the backend is running and reachable."
MsgNoFeedback == "No feedback available to export."
MsgDownloadFailed == "Failed to download PDF. Please try again."
MsgCopied == "Copied to clipboard"
MsgCopyFailed == "Failed to copy"

\* HTTP statuses of a failing response
Statuses == {400, 500}
\* JSON bodies of a failing response: without an error field, with an empty
\* one, with a non-empty one
ErrorData == { [detail |-> "n/a"], [error |-> ""], [error |-> "corrupt file"] }

\* the errors axios.post can reject with: raised while setting the request up
\* (neither request nor response), sent without an answer (request only),
\* answered with a failing status (request and response)
AxiosErrors ==
    { [message |-> "boom"] }
    \cup { [message |-> "Network Error", request |-> TRUE] }
    \cup { [message |-> "Request failed", request |-> TRUE,
            response |-> [status |-> s, data |-> d]] : s \in Statuses, d \in ErrorData }

----------------------------------------------------------------------------
(* Pure helpers *)

\* the two halves of String.prototype.trim on a sequence of characters
RECURSIVE TrimStart(_)
TrimStart(s) ==
    IF s # <<>> /\ IsWhiteSpace(Head(s)) THEN TrimStart(Tail(s)) ELSE s

RECURSIVE TrimEnd(_)
TrimEnd(s) ==
    IF s # <<>> /\ IsWhiteSpace(s[Len(s)]) THEN TrimEnd(SubSeq(s, 1, Len(s) - 1)) ELSE s

\* a trim that removes nothing
trim_Identity(s) == s

\* String.prototype.trim
trim(s) == TrimEnd(TrimStart(s))

\* the FormData built by handleSubmit
formData(file, description) ==
    IF trim(description) # <<>>
    THEN [resume |-> file, job_description |-> description]
    ELSE [resume |-> file]

\* the template literal of the status fallback
ServerReturned(status) ==
    "Server returned " \o ToString(status) \o ". Please check your resume and try again."

\* the body's error string is ignored and the status message always shown
ServerMessage_StatusOnly(response) == ServerReturned(response.status)

\* err.response.data?.error || `Server returned ...`
ServerMessage(response) ==
    IF "error" \in DOMAIN response.data /\ response.data.error # ""
    THEN response.data.error
    ELSE ServerReturned(response.status)

\* err.request is tested before err.response
classify_RequestFirst(err) ==
    IF "request" \in DOMAIN err THEN MsgNoResponse
    ELSE IF "response" \in DOMAIN err THEN ServerMessage(err.response)
    ELSE "Error: " \o err.message

\* the catch block of handleSubmit
classify(err) ==
    IF "response" \in DOMAIN err THEN ServerMessage(err.response)
    ELSE IF "request" \in DOMAIN err THEN MsgNoResponse
    ELSE "Error: " \o err.message

\* a sequence without its i-th element
RemoveAt(seq, i) == SubSeq(seq, 1, i - 1) \o SubSeq(seq, i + 1, Len(seq))

\* result?.strengths || []
strengths == IF "strengths" \in DOMAIN result THEN result.strengths ELSE <<>>

\* result?.weaknesses || []
weaknesses == IF "weaknesses" \in DOMAIN result THEN result.weaknesses ELSE <<>>

----------------------------------------------------------------------------
(* Rendering: what the component displays for a result and the two filters *)

\* typeof v === "number"
IsNumber(v) == "num" \in DOMAIN v

\* the number a JSON value converts to; no sample string is numeric text
NaN == [nan |-> TRUE]
ToNumber(v) == IF IsNumber(v) THEN v ELSE NaN

\* Math.round: to the nearest whole point, halves upwards
round(v) ==
    IF IsNumber(v)
    THEN [num |-> ((2 * v.num + Scale) \div (2 * Scale)) * Scale]
    ELSE NaN

\* Math.max(0, Math.min(100, v)); NaN stays NaN
clamp(v) ==
    IF IsNumber(v)
    THEN [num |-> IF v.num < 0 THEN 0
                  ELSE IF v.num > 100 * Scale THEN 100 * Scale
                  ELSE v.num]
    ELSE NaN

\* the lower bounds taken as exclusive
getScoreColor_Exclusive(score) ==
    IF IsNumber(score) /\ score.num > 80 * Scale THEN "success"
    ELSE IF IsNumber(score) /\ score.num > 60 * Scale THEN "info"
    ELSE IF IsNumber(score) /\ score.num > 40 * Scale THEN "warning"
    ELSE "error"

\* getScoreColor, and getColor of ScorePill: every comparison with NaN is false
getScoreColor(score) ==
    IF IsNumber(score) /\ score.num >= 80 * Scale THEN "success"
    ELSE IF IsNumber(score) /\ score.num >= 60 * Scale THEN "info"
    ELSE IF IsNumber(score) /\ score.num >= 40 * Scale THEN "warning"
    ELSE "error"

\* result.metric ?? 0, the value prop of a ScorePill
pillProp(r, metric) == IF metric \in DOMAIN r THEN r[metric] ELSE Num(0)

\* normalized of ScorePill
normalized(value) == clamp(round(ToNumber(value)))

\* the CircularProgress of the pill for a metric: its value and its colour
pillValue(r, metric) == normalized(pillProp(r, metric))
pillColor(r, metric) == getScoreColor(normalized(pillProp(r, metric)))

\* the ATS block is rendered only for a numeric ats_score
atsShown(r) == "ats_score" \in DOMAIN r /\ IsNumber(r.ats_score)

\* the score handed to the LinearProgress as received
atsValue_Unclamped(r) == r.ats_score

\* the LinearProgress of the ATS block: its value and its colour
atsValue(r) == clamp(r.ats_score)
atsColor(r) == getScoreColor(r.ats_score)

\* whether the metric of a stored result is on display: the three pills are
\* rendered with every result
displayed(r, metric) ==
    IF metric = "ats_score" THEN atsShown(r) ELSE TRUE

\* String.prototype.toLowerCase
lowerChar(c) ==
    CASE c = "T" -> "t" [] c = "S" -> "s" [] c = "Q" -> "q" [] c = "L" -> "l"
      [] c = "W" -> "w" [] c = "O" -> "o" [] c = "R" -> "r" [] c = "K" -> "k"
      [] OTHER -> c

\* a toLowerCase that changes nothing: the filter compares case-sensitively
toLowerCase_Identity(s) == s

toLowerCase(s) == [k \in 1..Len(s) |-> lowerChar(s[k])]

\* String.prototype.includes
includes(s, q) ==
    \E k \in 0..(Len(s) - Len(q)) : SubSeq(s, k + 1, k + Len(q)) = q

\* list.filter((s) => s.toLowerCase().includes(query.toLowerCase()))
filter(list, query) ==
    SelectSeq(list, LAMBDA w : includes(toLowerCase(w), toLowerCase(query)))

filteredStrengths == filter(strengths, strengthsFilter)
filteredWeaknesses == filter(weaknesses, weaknessesFilter)

\* the texts of the results column (the first one by its opening words)
MsgNoResultYet == "No result yet"
MsgNoStrengths == "No strengths detected"
MsgNoWeaknesses == "No missing keywords detected"

\* the caption shown in place of the chips of a list, "" when chips are shown
listMessage(list, query, none) ==
    IF Len(filter(list, query)) > 0 THEN "" ELSE none

strengthsMessage(list, query) == listMessage(list, query, MsgNoStrengths)
weaknessesMessage(list, query) == listMessage(list, query, MsgNoWeaknesses)

----------------------------------------------------------------------------
(* Initial state: the useState defaults, nothing in flight *)

Init ==
    /\ resume = NoFile
    /\ jobDescription = <<>>
    /\ loading = FALSE
    /\ result = NoResult
    /\ error = MsgNone
    /\ success = MsgNone
    /\ strengthsFilter = <<>>
    /\ weaknessesFilter = <<>>
    /\ uploads = <<>>
    /\ exports = <<>>
    /\ copies = 0
    /\ timers = 0
    /\ staleUploads = 0

----------------------------------------------------------------------------
(* Handlers *)

\* a file change that leaves the messages on display
handleFileChange_KeepMessages(file) ==
    /\ resume' = file
    /\ UNCHANGED <<staleUploads, strengthsFilter, weaknessesFilter, jobDescription, loading, result,
                   error, success, uploads, exports, copies, timers>>

\* the file input's onChange; files[0] is undefined when the dialog is cancelled
handleFileChange(file) ==
    /\ resume' = file
    /\ success' = MsgNone
    /\ error' = MsgNone
    /\ UNCHANGED <<staleUploads, strengthsFilter, weaknessesFilter, jobDescription, loading, result, uploads, exports, copies, timers>>

\* the job description text field's onChange
setJobDescription(value) ==
    /\ jobDescription' = value
    /\ UNCHANGED <<staleUploads, strengthsFilter, weaknessesFilter, resume, loading, result, error, success, uploads, exports, copies, timers>>

\* handleSubmit without setResult(null)
handleSubmit_KeepResult ==
    /\ IF resume = NoFile
       THEN /\ error' = MsgMissingResume
            /\ UNCHANGED <<staleUploads, strengthsFilter, weaknessesFilter, resume, jobDescription, loading, result, success,
                           uploads, exports, copies, timers>>
       ELSE /\ Len(uploads) < MaxUploads
            /\ loading' = TRUE
            /\ error' = MsgNone
            /\ success' = MsgNone
            /\ uploads' = Append(uploads, formData(resume, jobDescription))
            /\ UNCHANGED <<staleUploads, strengthsFilter, weaknessesFilter, resume, jobDescription, result, exports, copies, timers>>

\* handleSubmit without setSuccess("")
handleSubmit_KeepSuccess ==
    /\ IF resume = NoFile
       THEN /\ error' = MsgMissingResume
            /\ UNCHANGED <<staleUploads, strengthsFilter, weaknessesFilter, resume, jobDescription,
                           loading, result, success, uploads, exports, copies, timers>>
       ELSE /\ Len(uploads) < MaxUploads
            /\ loading' = TRUE
            /\ error' = MsgNone
            /\ result' = NoResult
            /\ uploads' = Append(uploads, formData(resume, jobDescription))
            /\ UNCHANGED <<staleUploads, strengthsFilter, weaknessesFilter, resume, jobDescription,
                           success, exports, copies, timers>>

\* handleSubmit without the return after the missing-resume message
handleSubmit_NoValidation ==
    /\ Len(uploads) < MaxUploads
    /\ loading' = TRUE
    /\ error' = MsgNone
    /\ result' = NoResult
    /\ success' = MsgNone
    /\ uploads' = Append(uploads, formData(resume, jobDescription))
    /\ UNCHANGED <<staleUploads, strengthsFilter, weaknessesFilter, resume, jobDescription, exports, copies, timers>>

\* the form's onSubmit, up to the await of axios.post
handleSubmit ==
    /\ IF resume = NoFile
       THEN /\ error' = MsgMissingResume
            /\ UNCHANGED <<staleUploads, strengthsFilter, weaknessesFilter, resume, jobDescription, loading, result, success,
                           uploads, exports, copies, timers>>
       ELSE /\ Len(uploads) < MaxUploads
            /\ loading' = TRUE
            /\ error' = MsgNone
            /\ result' = NoResult
            /\ success' = MsgNone
            /\ uploads' = Append(uploads, formData(resume, jobDescription))
            /\ UNCHANGED <<staleUploads, strengthsFilter, weaknessesFilter, resume, jobDescription, exports, copies, timers>>

\* axios.post resolved: the rest of the try block, then finally
uploadResolved(i, body) ==
    /\ i \in 1..Len(uploads)
    /\ result' = body
    /\ success' = MsgEvaluated
    /\ loading' = FALSE
    /\ uploads' = RemoveAt(uploads, i)
    /\ staleUploads' = IF i <= staleUploads THEN staleUploads - 1 ELSE staleUploads
    /\ UNCHANGED <<strengthsFilter, weaknessesFilter, resume, jobDescription, error, exports, copies, timers>>

\* the catch block without the finally block
uploadRejected_NoFinally(i, err) ==
    /\ i \in 1..Len(uploads)
    /\ error' = classify(err)
    /\ uploads' = RemoveAt(uploads, i)
    /\ staleUploads' = IF i <= staleUploads THEN staleUploads - 1 ELSE staleUploads
    /\ UNCHANGED <<strengthsFilter, weaknessesFilter, resume, jobDescription, loading,
                   result, success, exports, copies, timers>>

\* axios.post rejected: the catch block, then finally
uploadRejected(i, err) ==
    /\ i \in 1..Len(uploads)
    /\ error' = classify(err)
    /\ loading' = FALSE
    /\ uploads' = RemoveAt(uploads, i)
    /\ staleUploads' = IF i <= staleUploads THEN staleUploads - 1 ELSE staleUploads
    /\ UNCHANGED <<strengthsFilter, weaknessesFilter, resume, jobDescription, result, success, exports, copies, timers>>

\* the two filter fields' onChange; they are rendered only with a result
setStrengthsFilter(value) ==
    /\ result # NoResult
    /\ strengthsFilter' = value
    /\ UNCHANGED <<staleUploads, resume, jobDescription, loading, result, error, success,
                   weaknessesFilter, uploads, exports, copies, timers>>

setWeaknessesFilter(value) ==
    /\ result # NoResult
    /\ weaknessesFilter' = value
    /\ UNCHANGED <<staleUploads, resume, jobDescription, loading, result, error, success,
                   strengthsFilter, uploads, exports, copies, timers>>

\* a Reset that also leaves the loading state
Reset_ClearsLoading ==
    /\ result' = NoResult
    /\ error' = MsgNone
    /\ success' = MsgNone
    /\ resume' = NoFile
    /\ loading' = FALSE
    /\ staleUploads' = Len(uploads)
    /\ UNCHANGED <<strengthsFilter, weaknessesFilter, jobDescription, uploads, exports, copies, timers>>

\* the Reset button's onClick
Reset ==
    /\ result' = NoResult
    /\ error' = MsgNone
    /\ success' = MsgNone
    /\ resume' = NoFile
    /\ staleUploads' = Len(uploads)
    /\ UNCHANGED <<strengthsFilter, weaknessesFilter, jobDescription, loading, uploads, exports, copies, timers>>

\* handleDownloadPDF without the check for a result
handleDownloadPDF_NoValidation ==
    /\ Len(exports) < MaxExports
    /\ exports' = Append(exports, result)
    /\ UNCHANGED <<staleUploads, strengthsFilter, weaknessesFilter, resume, jobDescription, loading, result, error, success,
                   uploads, copies, timers>>

\* handleDownloadPDF, up to the await of axios.post
handleDownloadPDF ==
    IF result = NoResult
    THEN /\ error' = MsgNoFeedback
         /\ UNCHANGED <<staleUploads, strengthsFilter, weaknessesFilter, resume, jobDescription, loading, result, success,
                        uploads, exports, copies, timers>>
    ELSE /\ Len(exports) < MaxExports
         /\ exports' = Append(exports, result)
         /\ UNCHANGED <<staleUploads, strengthsFilter, weaknessesFilter, resume, jobDescription, loading, result, error, success,
                        uploads, copies, timers>>

\* the export request resolved: the blob is saved as resume_feedback.pdf
downloadResolved(i) ==
    /\ i \in 1..Len(exports)
    /\ exports' = RemoveAt(exports, i)
    /\ UNCHANGED <<staleUploads, strengthsFilter, weaknessesFilter, resume, jobDescription, loading, result, error, success,
                   uploads, copies, timers>>

\* the export request rejected: the catch block
downloadRejected(i) ==
    /\ i \in 1..Len(exports)
    /\ error' = MsgDownloadFailed
    /\ exports' = RemoveAt(exports, i)
    /\ UNCHANGED <<staleUploads, strengthsFilter, weaknessesFilter, resume, jobDescription, loading, result, success,
                   uploads, copies, timers>>

\* copyToClipboard(s) for the i-th strength, up to the await of clipboard.writeText
copyToClipboard(i) ==
    /\ i \in 1..Len(strengths)
    /\ copies + timers < MaxClipboard
    /\ copies' = copies + 1
    /\ UNCHANGED <<staleUploads, strengthsFilter, weaknessesFilter, resume, jobDescription, loading, result, error, success,
                   uploads, exports, timers>>

\* the confirmation without the setTimeout
copyResolved_NoTimer ==
    /\ copies > 0
    /\ copies' = copies - 1
    /\ success' = MsgCopied
    /\ UNCHANGED <<staleUploads, strengthsFilter, weaknessesFilter, resume, jobDescription, loading,
                   result, error, uploads, exports, timers>>

\* clipboard.writeText resolved: confirmation shown, auto-clear timer started
copyResolved ==
    /\ copies > 0
    /\ copies' = copies - 1
    /\ success' = MsgCopied
    /\ timers' = timers + 1
    /\ UNCHANGED <<staleUploads, strengthsFilter, weaknessesFilter, resume, jobDescription, loading, result, error, uploads, exports>>

\* clipboard.writeText rejected: the catch block
copyRejected ==
    /\ copies > 0
    /\ copies' = copies - 1
    /\ error' = MsgCopyFailed
    /\ UNCHANGED <<staleUploads, strengthsFilter, weaknessesFilter, resume, jobDescription, loading, result, success, uploads,
                   exports, timers>>

\* the setTimeout callback of copyToClipboard
timerFired ==
    /\ timers > 0
    /\ timers' = timers - 1
    /\ success' = MsgNone
    /\ UNCHANGED <<staleUploads, strengthsFilter, weaknessesFilter, resume, jobDescription, loading, result, error, uploads,
                   exports, copies>>

----------------------------------------------------------------------------
(* The rendered controls: which handler a user event can reach *)

\* a submit button that is never disabled
SubmitEnabled_Always == TRUE

\* the submit button is disabled while loading
SubmitEnabled == ~loading

\* both export buttons need a result: one is disabled without it, the other
\* is rendered only with it
ExportEnabled == result # NoResult

\* the user submits the form
clickSubmit == SubmitEnabled /\ handleSubmit

\* the user clicks an export button
clickExport == ExportEnabled /\ handleDownloadPDF

\* the user clicks the i-th strength chip, rendered only with a result
clickChip == \E i \in 1..Len(strengths) : copyToClipboard(i)

Next ==
    \/ \E file \in Files \cup {NoFile} : handleFileChange(file)
    \/ \E value \in Descriptions : setJobDescription(value)
    \/ clickSubmit
    \/ \E i \in 1..MaxUploads, body \in Bodies : uploadResolved(i, body)
    \/ \E i \in 1..MaxUploads, err \in AxiosErrors : uploadRejected(i, err)
    \/ Reset
    \/ clickExport
    \/ \E i \in 1..MaxExports : downloadResolved(i)
    \/ \E i \in 1..MaxExports : downloadRejected(i)
    \/ clickChip
    \/ copyResolved
    \/ copyRejected
    \/ timerFired

Spec == Init /\ [][Next]_vars

\* the handlers as entry points: handleDownloadPDF is also called directly, in
\* any state, as a test of the handler calls it
NextDirect ==
    \/ Next
    \/ handleDownloadPDF

SpecDirect == Init /\ [][NextDirect]_vars

\* a pending setTimeout callback is run by the browser once its delay is over
SpecTimers == Spec /\ WF_vars(timerFired)

\* the upload collaborator settles every request it was given
uploadSettled ==
    \/ \E i \in 1..MaxUploads, body \in Bodies : uploadResolved(i, body)
    \/ \E i \in 1..MaxUploads, err \in AxiosErrors : uploadRejected(i, err)

SpecSettled == Spec /\ WF_vars(uploadSettled)

----------------------------------------------------------------------------
(* The results column on its own: a result has just arrived, the user types
   into the filter fields and exports.  Spec holds the two filter fields at
   their initial value, for which every chip is rendered. *)

\* the response bodies rendered: each metric alone and all four together with
\* every sample value, every pair of lists, and the bodies of Spec
RenderBodies ==
    {[m \in {metric} |-> v] : metric \in Metrics, v \in MetricValues}
    \cup {[m \in Metrics |-> v] : v \in MetricValues}
    \cup {[strengths |-> l, weaknesses |-> w] : l \in Lists, w \in {<<>>, <<Sql>>}}
    \cup Bodies

\* the state after uploadResolved for one of these bodies
InitRender ==
    /\ resume \in Files
    /\ jobDescription = <<>>
    /\ loading = FALSE
    /\ result \in RenderBodies
    /\ error = MsgNone
    /\ success = MsgEvaluated
    /\ strengthsFilter = <<>>
    /\ weaknessesFilter = <<>>
    /\ uploads = <<>>
    /\ exports = <<>>
    /\ copies = 0
    /\ timers = 0
    /\ staleUploads = 0

NextRender ==
    \/ \E value \in Queries : setStrengthsFilter(value)
    \/ \E value \in Queries : setWeaknessesFilter(value)
    \/ clickExport
    \/ \E i \in 1..MaxExports : downloadResolved(i)
    \/ \E i \in 1..MaxExports : downloadRejected(i)

SpecRender == InitRender /\ [][NextRender]_vars

----------------------------------------------------------------------------
TypeOK ==
    /\ resume \in Files \cup {NoFile}
    /\ jobDescription \in Descriptions
    /\ loading \in BOOLEAN
    /\ "null" \in DOMAIN result <=> result = NoResult
    /\ Len(uploads) <= MaxUploads
    /\ Len(exports) <= MaxExports
    /\ copies \in 0..MaxClipboard
    /\ timers \in 0..MaxClipboard
    /\ staleUploads \in 0..Len(uploads)

----------------------------------------------------------------------------
(* Claims *)

\* C1: in every reachable state at most one of the error message and the
\* success message is non-empty.
C1_SingleSlot == error = MsgNone \/ success = MsgNone

\* C2: at most one upload request is outstanding at any time; while the state
\* is Submitting no step adds a second request or replaces the one in flight,
\* which leaves the queue only when it completes and Submitting ends.
C2_SingleUploadInFlight ==
    [][ /\ Len(uploads') <= 1
        /\ loading => \/ uploads' = uploads
                      \/ uploads' = <<>> /\ ~loading' ]_vars

\* a submission is in flight with a file still selected, so that a second
\* submit would be accepted if the button were enabled
C2_Witness == loading /\ Len(uploads) = 1 /\ resume # NoFile

\* C3 as stated: a live result is replaced only by a successful upload and
\* removed only by Reset, so a submission that fails leaves it in place.
C3_FailedSubmitKeepsResult ==
    [][ result # NoResult /\ result' # result
        => \/ \E i \in 1..MaxUploads, body \in Bodies : uploadResolved(i, body)
           \/ Reset ]_vars

\* C3 amended: an accepted submit clears the stored result when it dispatches
\* the upload, so no result is stored after an attempt that fails; a result
\* appears only by a successful upload and disappears only by an accepted
\* submit or by Reset.
C3_SubmitClearsResult ==
    [][ /\ Len(uploads') < Len(uploads)
              => \A i \in 1..MaxUploads, err \in AxiosErrors :
                     uploadRejected(i, err) => result' = NoResult
        /\ result' # result /\ result' # NoResult
              => \E i \in 1..MaxUploads, body \in Bodies : uploadResolved(i, body)
        /\ result # NoResult /\ result' = NoResult
              => Reset \/ (clickSubmit /\ resume # NoFile) ]_vars

\* a submission has failed after a result had been live: the export of that
\* result is still in flight
C3_Witness ==
    /\ result = NoResult /\ error = MsgNoResponse /\ ~loading
    /\ uploads = <<>> /\ exports # <<>>

\* C4: submit with no resume file sets the error message to exactly "Please
\* upload a resume file.", issues no upload request and does not enter
\* Submitting; the loading flag and the stored result are unchanged.
C4_MissingResume ==
    [][ resume = NoFile /\ clickSubmit
        => /\ error' = "Please upload a resume file."
           /\ uploads' = uploads
           /\ loading' = loading /\ ~loading'
           /\ result' = result ]_vars

\* the missing-resume message is on display and nothing was sent
C4_Witness ==
    /\ error = MsgMissingResume /\ resume = NoFile
    /\ ~loading /\ uploads = <<>> /\ exports = <<>> /\ copies = 0

\* C5: Reset, in any state including Submitting, leaves the component in
\* Idle: file absent, result absent, both messages empty, loading flag false.
C5_ResetIdle ==
    [][ Reset => /\ resume' = NoFile
                 /\ result' = NoResult
                 /\ error' = MsgNone /\ success' = MsgNone
                 /\ ~loading' ]_vars

\* C6: when the upload completes with a success response the stored result
\* is the response body, the success message is the success notification,
\* the error message is empty and the loading flag is false.
C6_SuccessResponse ==
    [][ Len(uploads') < Len(uploads)
        => \A i \in 1..MaxUploads, body \in Bodies :
            uploadResolved(i, body)
            => /\ result' = body
               /\ success' = "Resume evaluated successfully!"
               /\ error' = MsgNone
               /\ ~loading' ]_vars

\* C7 as stated: with a response received, the error message is the body's
\* error string whenever that field is present, else the status message.
C7_BodyErrorWhenPresent ==
    [][ Len(uploads') < Len(uploads)
        => \A i \in 1..MaxUploads, err \in AxiosErrors :
            uploadRejected(i, err) /\ "response" \in DOMAIN err
            => error' = IF "error" \in DOMAIN err.response.data
                        THEN err.response.data.error
                        ELSE ServerReturned(err.response.status) ]_vars

\* C7 amended: with a response received, the error message is the body's
\* error string when that field is present and not empty, and otherwise the
\* generated message with the numeric status code.
C7_BodyErrorWhenNonEmpty ==
    [][ Len(uploads') < Len(uploads)
        => \A i \in 1..MaxUploads, err \in AxiosErrors :
            uploadRejected(i, err) /\ "response" \in DOMAIN err
            => error' = IF /\ "error" \in DOMAIN err.response.data
                           /\ err.response.data.error # ""
                        THEN err.response.data.error
                        ELSE "Server returned " \o ToString(err.response.status)
                             \o ". Please check your resume and try again." ]_vars

\* a status 500 answer with body error "corrupt file" is on display
C7_Witness == error = "corrupt file" /\ ~loading /\ result = NoResult

\* C8: a failed submission is classified by response received, then request
\* dispatched without a response, then neither: a response gives a server
\* message, no response after dispatch gives the fixed network message and
\* never a server message, a failure before dispatch gives the exception's
\* description.
C8_ClassificationOrder ==
    [][ Len(uploads') < Len(uploads)
        => \A i \in 1..MaxUploads, err \in AxiosErrors :
            uploadRejected(i, err)
            => LET answered == "response" \in DOMAIN err
                   sent == "request" \in DOMAIN err
                   serverMessages ==
                       {ServerReturned(s) : s \in Statuses} \cup {"corrupt file"}
               IN  /\ answered => error' \in serverMessages
                   /\ ~answered /\ sent
                        => error' = MsgNoResponse /\ error' \notin serverMessages
                   /\ ~answered /\ ~sent
                        => error' = "Error: " \o err.message ]_vars

\* the network message is on display after a failed submission
C8_Witness ==
    /\ error = MsgNoResponse /\ ~loading /\ result = NoResult
    /\ uploads = <<>> /\ exports = <<>> /\ resume # NoFile

\* C9: export with no result stored sets the error message to "No feedback
\* available to export." and issues no export request; an export request is
\* issued only when a result is stored, and its body is that result.
C9_ExportNeedsResult ==
    [][ /\ result = NoResult /\ handleDownloadPDF
             => error' = "No feedback available to export." /\ exports' = exports
        /\ result # NoResult /\ handleDownloadPDF
             => exports' = Append(exports, result)
        /\ Len(exports') > Len(exports)
             => result # NoResult /\ exports'[Len(exports')] = result ]_vars

\* the export validation message is on display and no export was sent
C9_Witness == error = MsgNoFeedback /\ result = NoResult /\ exports = <<>>

\* C10: the upload payload always carries the resume field, and carries the
\* job_description field exactly when the job description has a character
\* that is not white space; then the field is the description as typed.
C10_PayloadFields ==
    [][ Len(uploads') > Len(uploads)
        => LET payload == uploads'[Len(uploads')]
               blank == \A k \in 1..Len(jobDescription) :
                            IsWhiteSpace(jobDescription[k])
           IN  /\ "resume" \in DOMAIN payload
               /\ payload.resume = resume /\ resume # NoFile
               /\ "job_description" \in DOMAIN payload <=> ~blank
               /\ ~blank => payload.job_description = jobDescription
               /\ DOMAIN payload \subseteq {"resume", "job_description"} ]_vars

\* a payload without job_description is in flight for a description of
\* white space only
C10_Witness ==
    /\ uploads # <<>>
    /\ DOMAIN uploads[1] = {"resume"}
    /\ jobDescription # <<>>
    /\ \A k \in 1..Len(jobDescription) : IsWhiteSpace(jobDescription[k])

\* C11: each of the four metrics is displayed if and only if its field is
\* present and numeric in the stored result; an absent or non-numeric metric
\* is omitted and never shown as zero.
C11_MetricShownIffNumeric ==
    result # NoResult
    => \A metric \in Metrics :
           displayed(result, metric)
           <=> (metric \in DOMAIN result /\ IsNumber(result[metric]))

\* C12: with a result present, a non-empty source list whose filtered list is
\* empty renders a message different from that of an empty source list, and
\* both differ from the message shown without a result.
C12_DistinctListMessages ==
    result # NoResult
    => /\ strengths # <<>> /\ filteredStrengths = <<>>
          => /\ strengthsMessage(strengths, strengthsFilter)
                    # strengthsMessage(<<>>, strengthsFilter)
             /\ strengthsMessage(strengths, strengthsFilter) # MsgNoResultYet
       /\ weaknesses # <<>> /\ filteredWeaknesses = <<>>
          => /\ weaknessesMessage(weaknesses, weaknessesFilter)
                    # weaknessesMessage(<<>>, weaknessesFilter)
             /\ weaknessesMessage(weaknesses, weaknessesFilter) # MsgNoResultYet

\* the four-tier mapping, with inclusive lower bounds, of a score held in
\* 1/Scale points
IsBucketOf(color, score) ==
    /\ color = "success" <=> score >= 80 * Scale
    /\ color = "info" <=> (60 * Scale <= score /\ score < 80 * Scale)
    /\ color = "warning" <=> (40 * Scale <= score /\ score < 60 * Scale)
    /\ color = "error" <=> score < 40 * Scale

\* the colour shown for a metric: the ATS bar's, or the metric's pill's
shownColor(metric) ==
    IF metric = "ats_score" THEN atsColor(result) ELSE pillColor(result, metric)

\* C13 as stated: every place that colours a metric yields the bucket of the
\* metric's received score.
C13_BucketOfReceivedScore ==
    result # NoResult
    => \A metric \in Metrics \cap DOMAIN result :
           IsNumber(result[metric])
           => IsBucketOf(shownColor(metric), result[metric].num)

\* the whole number nearest to a score, halves upwards, in 1/Scale points
Nearest(score) ==
    Scale * (CHOOSE n \in -2..102 :
                 /\ 2 * n * Scale - Scale <= 2 * score
                 /\ 2 * score < 2 * n * Scale + Scale)

\* C13 amended: the ATS bar yields the bucket of the received score; a score
\* pill yields the bucket of the received score rounded to the nearest whole
\* number (halves upwards), which is the bucket of the received score itself
\* whenever that score is a whole number.
C13_BucketOfRoundedScore ==
    result # NoResult
    => \A metric \in Metrics \cap DOMAIN result :
           IsNumber(result[metric])
           => LET score == result[metric].num
              IN  /\ metric = "ats_score"
                        => IsBucketOf(atsColor(result), score)
                  /\ metric # "ats_score"
                        => IsBucketOf(pillColor(result, metric), Nearest(score))
                  /\ score % Scale = 0
                        => IsBucketOf(shownColor(metric), score)

\* scores of exactly 80 are on display, green in the bar and in a pill
C13_Witness ==
    /\ result # NoResult
    /\ \A metric \in Metrics :
           /\ metric \in DOMAIN result
           /\ IsNumber(result[metric])
           /\ result[metric].num = 80 * Scale
    /\ atsColor(result) = "success"
    /\ pillColor(result, "match_score") = "success"

\* whether word contains query as a substring, ignoring case
ContainsIgnoringCase(word, query) ==
    \E k \in 0..(Len(word) - Len(query)) :
        \A j \in 1..Len(query) : lowerChar(word[k + j]) = lowerChar(query[j])

\* whether out is list restricted to the items containing query, in order
\* and with duplicates
IsFiltered(out, list, query) ==
    LET keep == {i \in 1..Len(list) : ContainsIgnoringCase(list[i], query)}
        nth(n) == CHOOSE i \in keep : Cardinality({j \in keep : j <= i}) = n
    IN  /\ Len(out) = Cardinality(keep)
        /\ \A n \in 1..Len(out) : out[n] = list[nth(n)]

\* C14: filter(list, query) is exactly the items of list that contain query
\* as a substring ignoring case, in their order and with duplicates kept;
\* filter(list, "") is list; typing into a filter leaves the stored lists as
\* they are.
C14_Filter ==
    [][ /\ IsFiltered(filteredStrengths', strengths', strengthsFilter')
        /\ IsFiltered(filteredWeaknesses', weaknesses', weaknessesFilter')
        /\ filter(strengths', <<>>) = strengths'
        /\ filter(weaknesses', <<>>) = weaknesses'
        /\ (strengthsFilter' # strengthsFilter \/ weaknessesFilter' # weaknessesFilter)
              => result' = result ]_vars

\* "team" is typed and the chips are the two items containing it, of three
C14_Witness ==
    /\ strengthsFilter = Team
    /\ strengths = <<Teamwork, Sql>>
    /\ filteredStrengths = <<Teamwork>>

\* the value handed to the progress indicator of a metric
progressValue(metric) ==
    IF metric = "ats_score" THEN atsValue(result) ELSE pillValue(result, metric)

\* C20: for every received whole score s the value handed to a progress
\* indicator is max(0, min(100, s)), within 0..100, while the stored result
\* keeps s, so that an export request carries the value as received.
C20_ClampedForDisplayOnly ==
    result # NoResult
    => /\ \A metric \in Metrics \cap DOMAIN result :
              (IsNumber(result[metric]) /\ result[metric].num % Scale = 0)
              => LET s == result[metric].num
                     shown == progressValue(metric).num
                 IN  /\ shown = IF s < 0 THEN 0
                                ELSE IF s > 100 * Scale THEN 100 * Scale ELSE s
                     /\ 0 <= shown /\ shown <= 100 * Scale
       /\ result \in RenderBodies
       /\ \A i \in 1..Len(exports) : exports[i] = result

\* a score of 101 is shown as 100 while the export in flight carries 101
C20_Witness ==
    /\ result # NoResult
    /\ "ats_score" \in DOMAIN result
    /\ result.ats_score = Num(101)
    /\ atsValue(result) = Num(100)
    /\ exports # <<>>
    /\ exports[1].ats_score = Num(101)

\* C15: after a clipboard copy succeeds the confirmation is shown, a timer is
\* started, and the confirmation is eventually cleared by a timer without any
\* user action; after a copy fails the error slot holds "Failed to copy" and
\* no timer is started.
C15_CopyFeedback ==
    /\ [][ /\ copyResolved => success' = "Copied to clipboard" /\ timers' = timers + 1
           /\ copyRejected => error' = "Failed to copy" /\ timers' = timers ]_vars
    /\ (success = MsgCopied) ~> (success = MsgNone)

\* one copy has failed and a later one succeeded: its confirmation is on
\* display with its timer pending
C15_Witness ==
    /\ success = MsgCopied /\ timers = 1 /\ copies = 0
    /\ error = MsgCopyFailed

\* C16: selecting a file always succeeds, replaces the held file, and clears
\* both messages; the stored result, the job description and the submission
\* state are unchanged.
C16_FileChangeFrame ==
    [][ /\ \A file \in Files : ENABLED handleFileChange(file)
        /\ \A file \in Files \cup {NoFile} :
               handleFileChange(file)
               => /\ resume' = file
                  /\ error' = MsgNone /\ success' = MsgNone
                  /\ result' = result
                  /\ jobDescription' = jobDescription
                  /\ loading' = loading /\ uploads' = uploads ]_vars

\* with a result live and a description typed, another file was selected and
\* the messages are gone
C16_Witness ==
    /\ resume = "cv.txt" /\ result # NoResult /\ jobDescription # <<>>
    /\ error = MsgNone /\ success = MsgNone
    /\ ~loading /\ copies = 0 /\ timers = 0 /\ exports = <<>>

\* C17: when a submit with a file present is accepted, then at the dispatch of
\* the upload request the state is Submitting, both messages are empty and
\* the stored result is absent.
C17_DispatchState ==
    [][ resume # NoFile /\ clickSubmit
        => /\ Len(uploads') = Len(uploads) + 1
           /\ loading'
           /\ error' = MsgNone /\ success' = MsgNone
           /\ result' = NoResult ]_vars

\* a submit was accepted from Success: the export of the earlier result is
\* still in flight
C17_Witness ==
    /\ loading /\ Len(uploads) = 1 /\ exports # <<>>
    /\ error = MsgNone /\ success = MsgNone /\ result = NoResult

\* C18: once the upload collaborator settles the request, an accepted
\* submission leaves Submitting; every completion clears the loading flag and
\* ends in Success (result and notification) or in Error (a message).
C18_LeavesSubmitting ==
    /\ [][ Len(uploads') < Len(uploads)
           => /\ ~loading'
              /\ \/ result' # NoResult /\ success' = MsgEvaluated
                 \/ error' # MsgNone ]_vars
    /\ loading ~> ~loading

\* a submission has ended in Error on a failure before dispatch
C18_Witness ==
    /\ ~loading /\ uploads = <<>> /\ error = "Error: boom"
    /\ result = NoResult /\ resume # NoFile

\* C19: in every reachable state where a submission is in flight the error
\* message is empty.
C19_NoErrorWhileSubmitting == loading => error = MsgNone

\* C21: after Reset the stored result and the success message stay absent
\* until a submission started after that Reset succeeds: the response of an
\* upload request dispatched before the Reset changes neither the stored
\* result nor the two messages.
C21_StaleResponseIgnored ==
    [][ Len(uploads') < Len(uploads)
        => \A i \in 1..staleUploads :
              /\ \A body \in Bodies :
                    uploadResolved(i, body)
                    => result' = result /\ success' = success /\ error' = error
              /\ \A err \in AxiosErrors :
                    uploadRejected(i, err)
                    => result' = result /\ success' = success /\ error' = error ]_vars

\* C22: the auto-clear timer removes only the copy confirmation it was started
\* for: a timer that clears the success message finds the copy confirmation
\* there (not the message of a submission) and is the only timer pending (so
\* the confirmation is not that of a more recent copy, whose own timer is
\* still to fire; timers of equal delay fire in the order they were started).
C22_TimerClearsOwnConfirmation ==
    [][ timerFired /\ success # MsgNone
        => success = MsgCopied /\ timers = 1 ]_vars

\* C23: in every reachable state the loading flag is true exactly when an
\* upload request is outstanding; a step that sets the flag dispatches an
\* upload request, a step that clears it is the completion of that request,
\* and select, Reset, export and copy leave the flag as it is.
C23_LoadingIffOutstanding ==
    [][ /\ loading <=> uploads # <<>>
        /\ loading' <=> uploads' # <<>>
        /\ (~loading /\ loading')
              => clickSubmit /\ uploads' = Append(uploads, formData(resume, jobDescription))
        /\ (loading /\ ~loading')
              => Len(uploads') < Len(uploads) /\ uploadSettled
        /\ ( \/ \E file \in Files \cup {NoFile} : handleFileChange(file)
             \/ Reset
             \/ clickExport
             \/ \E i \in 1..MaxExports : downloadResolved(i) \/ downloadRejected(i)
             \/ clickChip
             \/ copyResolved
             \/ copyRejected )
              => loading' = loading ]_vars

\* Reset was clicked while an upload was in flight: the flag is still set and
\* the request still outstanding
C23_Witness == loading /\ staleUploads = 1 /\ resume = NoFile /\ result = NoResult
====
